---- MODULE Spec2Model ----
(***************************************************************************)
(* Model of ModelUpdater (src/model/model_updater.py): the reconciliation  *)
(* of the tracked per-hotkey model metadata against the metadata store,    *)
(* with the download and hash validation of the model files.               *)
(*                                                                         *)
(* Every coroutine runs atomically from one await to the next: the awaits  *)
(* are metadata_store.retrieve_model_metadata and                          *)
(* remote_store.download_model.  ModelTracker, the stores and              *)
(* get_hash_of_two_strings are not part of the sources at hand; they are   *)
(* modelled from the specification (the Tracker: a map and a set guarded   *)
(* by one mutex).                                                          *)
(***************************************************************************)
EXTENDS Integers, Sequences, FiniteSets, TLC

VARIABLES
    min_block,      \* ModelUpdater.min_block
    last_metadata,  \* ModelTracker.miner_hotkey_to_model_metadata_dict
    downloaded,     \* ModelTracker.model_downloaded
    lock,           \* ModelTracker.lock: 0 when free, else the holding call
    disk,           \* hash of the files at local_store.get_path(hotkey)
    op,             \* per call slot: the coroutine running in it
    hotkey,         \* per call slot: its hotkey argument
    pc,             \* per call slot: where the coroutine is suspended
    metadata,       \* per call slot: its local variable metadata
    result,         \* per call slot: the value returned or the error raised
    batch,          \* the sync_models call in progress, if any
    fetched,        \* history: what the metadata store gave the call
    retrieved,      \* history: what download_model gave the call
    pre,            \* history: the Tracker and the disk when the call began
    prev,           \* history: the sync_model call that returned True just before
    recorded        \* history: the hash tracked when the hotkey joined downloaded

vars == <<min_block, last_metadata, downloaded, lock, disk, op, hotkey, pc,
          metadata, result, batch, fetched, retrieved, pre, prev, recorded>>
hist == <<fetched, retrieved, pre, prev, recorded>>

----------------------------------------------------------------------------
(* Bounds of the model. *)

MaxTasks == 3
MaxConcurrent == 2
MaxHash == 2
MaxMetaHash == 1
MaxBlock == 1

Hotkeys == {"a", "b"}
Tasks == 1..MaxTasks
Hashes == 0..MaxHash
Blocks == 0..MaxBlock

----------------------------------------------------------------------------
(* constants/__init__.py *)

ORIGINAL_COMPETITION_ID == "p240"

COMPETITION_SCHEDULE ==
    << [reward_percentage |-> 1, competition_id |-> ORIGINAL_COMPETITION_ID] >>

NoParameters == [reward_percentage |-> 0, competition_id |-> "<none>"]

----------------------------------------------------------------------------
(* Values. *)

CompetitionIds == {"", ORIGINAL_COMPETITION_ID, "zz"}

Metadata ==
    [id : [hash : 0..MaxMetaHash, competition_id : CompetitionIds], block : Blocks]

\* The Python None where a ModelMetadata is expected.
NoMetadata == [id |-> [hash |-> -1, competition_id |-> "<none>"], block |-> -1]

\* The Python None of min_block.
NoMinBlock == -1

\* No file at the path.
NoFile == -1

\* Python truthiness of an Optional[int].
Truthy(val) == val # NoMinBlock /\ val # 0

\* Python truthiness of a str.
TruthyStr(s) == s # ""

----------------------------------------------------------------------------
(* Helpers of ModelUpdater and of its collaborators. *)

\* Mutant: an unknown id falls back to the first entry of the schedule.
get_competition_parameters_fallback(competition_id) == COMPETITION_SCHEDULE[1]

\* ModelUpdater.get_competition_parameters: the first entry of the schedule
\* with this id, or None.
get_competition_parameters(competition_id) ==
    IF \E i \in 1..Len(COMPETITION_SCHEDULE) :
           COMPETITION_SCHEDULE[i].competition_id = competition_id
    THEN COMPETITION_SCHEDULE[
             CHOOSE i \in 1..Len(COMPETITION_SCHEDULE) :
                 /\ COMPETITION_SCHEDULE[i].competition_id = competition_id
                 /\ \A j \in 1..(i - 1) :
                        COMPETITION_SCHEDULE[j].competition_id # competition_id]
    ELSE NoParameters

\* model.utils.get_hash_of_two_strings: a deterministic combination of a
\* hash and a hotkey that depends on both.
HotkeyIndex(h) == IF h = "a" THEN 1 ELSE 2

get_hash_of_two_strings(hash, h) == (hash + HotkeyIndex(h)) % (MaxHash + 1)

\* Mutant: the floor itself is rejected (<= for <).
BelowMinBlockInclusive(m) == Truthy(min_block) /\ m.block <= min_block

\* "if self.min_block and metadata.block < self.min_block"
BelowMinBlock(m) == Truthy(min_block) /\ m.block < min_block

\* Mutant: the empty competition id is left as it is.
BackwardsCompatibleNoRewrite(m) == m

\* "if not metadata.id.competition_id:
\*      metadata.id.competition_id = ORIGINAL_COMPETITION_ID"
BackwardsCompatible(m) ==
    IF ~TruthyStr(m.id.competition_id)
    THEN [m EXCEPT !.id.competition_id = ORIGINAL_COMPETITION_ID]
    ELSE m

\* "if not parameters"
HasParameters(m) == get_competition_parameters(m.id.competition_id) # NoParameters

\* ModelTracker.get_model_metadata_for_miner_hotkey
get_model_metadata_for_miner_hotkey(h) == last_metadata[h]

\* Mutant: the tracked metadata is compared with the metadata as fetched,
\* before the competition id is defaulted.
SyncModelDecisionRawCompare(h, m) ==
    IF m = NoMetadata THEN "skip"
    ELSE IF BelowMinBlock(m) THEN "skip"
    ELSE IF ~HasParameters(BackwardsCompatible(m)) THEN "skip"
    ELSE IF m = get_model_metadata_for_miner_hotkey(h) THEN "skip"
    ELSE "download"

\* Mutant: the comparison with the tracked metadata is missing.
SyncModelDecisionNoCompare(h, m) ==
    IF m = NoMetadata THEN "skip"
    ELSE IF BelowMinBlock(m) THEN "skip"
    ELSE IF ~HasParameters(BackwardsCompatible(m)) THEN "skip"
    ELSE "download"

\* sync_model up to its download, given the metadata m the store returned:
\* "skip" when it returns False, "download" when it goes on to download_model.
SyncModelDecision(h, m) ==
    IF m = NoMetadata THEN "skip"
    ELSE IF BelowMinBlock(m) THEN "skip"
    ELSE IF ~HasParameters(BackwardsCompatible(m)) THEN "skip"
    ELSE IF BackwardsCompatible(m) = get_model_metadata_for_miner_hotkey(h) THEN "skip"
    ELSE "download"

\* Mutant: metadata equal to a tracked one is skipped, as sync_model does.
MetadataOnlyDecisionSkipsTracked(m) ==
    IF m = NoMetadata THEN "skip"
    ELSE IF BelowMinBlock(m) THEN "skip"
    ELSE IF ~HasParameters(BackwardsCompatible(m)) THEN "skip"
    ELSE IF \E h \in Hotkeys : BackwardsCompatible(m) = last_metadata[h] THEN "skip"
    ELSE "commit"

\* Mutant: the lookup of the competition parameters is missing.
MetadataOnlyDecisionNoParametersCheck(m) ==
    IF m = NoMetadata THEN "skip"
    ELSE IF BelowMinBlock(m) THEN "skip"
    ELSE "commit"

\* sync_model_metadata_only up to its commit.
MetadataOnlyDecision(m) ==
    IF m = NoMetadata THEN "skip"
    ELSE IF BelowMinBlock(m) THEN "skip"
    ELSE IF ~HasParameters(BackwardsCompatible(m)) THEN "skip"
    ELSE "commit"

\* Mutant: the salted hash is not salted with the hotkey of the call.
SyncModelHashOkWrongSalt(model_hash, m, h) ==
    \/ model_hash = m.id.hash
    \/ get_hash_of_two_strings(model_hash, "b") = m.id.hash

\* The validation of sync_model:
\* "hash_matches_directly or hash_with_hotkey == metadata.id.hash"
SyncModelHashOk(model_hash, m, h) ==
    \/ model_hash = m.id.hash
    \/ get_hash_of_two_strings(model_hash, h) = m.id.hash

\* Mutant: the inner if is missing, only the direct match is accepted.
EnsureHashOkDirectOnly(model_hash, m, h) == model_hash = m.id.hash

\* The validation of ensure_model_downloaded: the nested ifs that raise.
EnsureHashOk(model_hash, m, h) ==
    ~ (/\ model_hash # m.id.hash
       /\ get_hash_of_two_strings(model_hash, h) # m.id.hash)

----------------------------------------------------------------------------
(* ModelTracker, modelled from the specification: both updates overwrite  *)
(* the hotkey's entry under the lock.                                      *)

on_miner_model_updated(h, m) == [last_metadata EXCEPT ![h] = m]

on_miner_model_updated_metadata_only(h, m) == [last_metadata EXCEPT ![h] = m]

\* remote_store.download_model writes the files it fetched at the path.
download_model(h, model_hash) == [disk EXCEPT ![h] = model_hash]

----------------------------------------------------------------------------
(* The call slots. *)

NoBatch == [status |-> "none", hotkeys |-> <<>>, outcomes |-> <<>>]

\* The slots of a sync_models call are its own until its caller has the result.
InBatch(t) == batch.status # "none" /\ t <= Len(batch.hotkeys)

Free(t) == pc[t] \in {"idle", "done"} /\ ~InBatch(t)

Begin(t, o, h) ==
    /\ op' = [op EXCEPT ![t] = o]
    /\ hotkey' = [hotkey EXCEPT ![t] = h]
    /\ metadata' = [metadata EXCEPT ![t] = NoMetadata]
    /\ result' = [result EXCEPT ![t] = ""]

\* The call returns value r, or raises r.
Finish(t, r) ==
    /\ pc' = [pc EXCEPT ![t] = "done"]
    /\ result' = [result EXCEPT ![t] = r]
    /\ metadata' = [metadata EXCEPT ![t] = NoMetadata]

At(t, o, where) == op[t] = o /\ pc[t] = where

----------------------------------------------------------------------------
(* set_min_block *)

set_min_block(val) ==
    /\ min_block' = val
    /\ UNCHANGED <<last_metadata, downloaded, lock, disk, op, hotkey, pc,
                   metadata, result, batch>>

----------------------------------------------------------------------------
(* sync_model *)

\* The call starts and awaits the metadata store.
SyncModelCall(t, h) ==
    /\ Free(t)
    /\ Begin(t, "sync_model", h)
    /\ pc' = [pc EXCEPT ![t] = "get_metadata"]
    /\ UNCHANGED <<min_block, last_metadata, downloaded, lock, disk, batch>>

\* "Update the tracker", once the lock is held.
SyncModelUpdateTracker(t) ==
    /\ last_metadata' = on_miner_model_updated(hotkey[t], metadata[t])
    /\ Finish(t, "True")

\* The metadata store returns m: the filters, the comparison with the
\* tracked metadata, and the start of the download.
SyncModelGotMetadata(t, m) ==
    /\ At(t, "sync_model", "get_metadata")
    /\ IF SyncModelDecision(hotkey[t], m) = "download"
       THEN /\ pc' = [pc EXCEPT ![t] = "download"]
            /\ metadata' = [metadata EXCEPT ![t] = BackwardsCompatible(m)]
            /\ UNCHANGED result
       ELSE Finish(t, "False")
    /\ UNCHANGED <<min_block, last_metadata, downloaded, lock, disk, op,
                   hotkey, batch>>

\* Mutant: the error of the metadata store is caught and read as no metadata.
SyncModelMetadataErrorAsAbsence(t) ==
    /\ At(t, "sync_model", "get_metadata")
    /\ Finish(t, "False")
    /\ UNCHANGED <<min_block, last_metadata, downloaded, lock, disk, op,
                   hotkey, batch>>

\* The metadata store raises.
SyncModelMetadataError(t) ==
    /\ At(t, "sync_model", "get_metadata")
    /\ Finish(t, "RetrievalError")
    /\ UNCHANGED <<min_block, last_metadata, downloaded, lock, disk, op,
                   hotkey, batch>>

\* Mutant: a failed validation evicts the hotkey's tracked entry.
SyncModelDownloadedEvicts(t, model_hash) ==
    /\ At(t, "sync_model", "download")
    /\ disk' = download_model(hotkey[t], model_hash)
    /\ IF ~SyncModelHashOk(model_hash, metadata[t], hotkey[t])
       THEN /\ Finish(t, "ValueError")
            /\ last_metadata' = [last_metadata EXCEPT ![hotkey[t]] = NoMetadata]
       ELSE IF lock = 0
       THEN SyncModelUpdateTracker(t)
       ELSE /\ pc' = [pc EXCEPT ![t] = "commit"]
            /\ UNCHANGED <<last_metadata, metadata, result>>
    /\ UNCHANGED <<min_block, downloaded, lock, op, hotkey, batch>>

\* download_model returns a model of hash model_hash: the validation, and
\* the update of the tracker (which waits for the lock when it is held).
SyncModelDownloaded(t, model_hash) ==
    /\ At(t, "sync_model", "download")
    /\ disk' = download_model(hotkey[t], model_hash)
    /\ IF ~SyncModelHashOk(model_hash, metadata[t], hotkey[t])
       THEN Finish(t, "ValueError") /\ UNCHANGED last_metadata
       ELSE IF lock = 0
       THEN SyncModelUpdateTracker(t)
       ELSE /\ pc' = [pc EXCEPT ![t] = "commit"]
            /\ UNCHANGED <<last_metadata, metadata, result>>
    /\ UNCHANGED <<min_block, downloaded, lock, op, hotkey, batch>>

\* download_model raises; the files at the path are taken to be untouched.
SyncModelDownloadError(t) ==
    /\ At(t, "sync_model", "download")
    /\ Finish(t, "TransferError")
    /\ UNCHANGED <<min_block, last_metadata, downloaded, lock, disk, op,
                   hotkey, batch>>

\* The lock is released and the waiting update goes on.
SyncModelCommit(t) ==
    /\ At(t, "sync_model", "commit")
    /\ lock = 0
    /\ SyncModelUpdateTracker(t)
    /\ UNCHANGED <<min_block, downloaded, lock, disk, op, hotkey, batch>>

----------------------------------------------------------------------------
(* sync_model_metadata_only *)

MetadataOnlyCall(t, h) ==
    /\ Free(t)
    /\ Begin(t, "sync_model_metadata_only", h)
    /\ pc' = [pc EXCEPT ![t] = "get_metadata"]
    /\ UNCHANGED <<min_block, last_metadata, downloaded, lock, disk, batch>>

MetadataOnlyUpdateTracker(t, m) ==
    /\ last_metadata' = on_miner_model_updated_metadata_only(hotkey[t], m)
    /\ Finish(t, "True")

MetadataOnlyGotMetadata(t, m) ==
    /\ At(t, "sync_model_metadata_only", "get_metadata")
    /\ IF MetadataOnlyDecision(m) = "commit"
       THEN IF lock = 0
            THEN MetadataOnlyUpdateTracker(t, BackwardsCompatible(m))
            ELSE /\ pc' = [pc EXCEPT ![t] = "commit"]
                 /\ metadata' = [metadata EXCEPT ![t] = BackwardsCompatible(m)]
                 /\ UNCHANGED <<last_metadata, result>>
       ELSE Finish(t, "False") /\ UNCHANGED last_metadata
    /\ UNCHANGED <<min_block, downloaded, lock, disk, op, hotkey, batch>>

MetadataOnlyMetadataError(t) ==
    /\ At(t, "sync_model_metadata_only", "get_metadata")
    /\ Finish(t, "RetrievalError")
    /\ UNCHANGED <<min_block, last_metadata, downloaded, lock, disk, op,
                   hotkey, batch>>

MetadataOnlyCommit(t) ==
    /\ At(t, "sync_model_metadata_only", "commit")
    /\ lock = 0
    /\ MetadataOnlyUpdateTracker(t, metadata[t])
    /\ UNCHANGED <<min_block, downloaded, lock, disk, op, hotkey, batch>>

----------------------------------------------------------------------------
(* ensure_model_downloaded *)

\* Mutant: the lock is given up before the download is awaited.
EnsureLockedReleasesForDownload(t, h) ==
    IF h \in downloaded
    THEN Finish(t, "None") /\ UNCHANGED lock
    ELSE IF last_metadata[h] = NoMetadata
    THEN Finish(t, "KeyError") /\ UNCHANGED lock
    ELSE /\ pc' = [pc EXCEPT ![t] = "download"]
         /\ metadata' = [metadata EXCEPT ![t] = last_metadata[h]]
         /\ result' = [result EXCEPT ![t] = ""]
         /\ UNCHANGED lock

\* Mutant: the check "hotkey in model_downloaded" is missing.
EnsureLockedNoPresenceCheck(t, h) ==
    IF last_metadata[h] = NoMetadata
    THEN Finish(t, "KeyError") /\ UNCHANGED lock
    ELSE /\ pc' = [pc EXCEPT ![t] = "download"]
         /\ metadata' = [metadata EXCEPT ![t] = last_metadata[h]]
         /\ result' = [result EXCEPT ![t] = ""]
         /\ lock' = t

\* Mutant: the tracked metadata is read with a default (dict.get) and the
\* download goes on without it.
EnsureLockedDefaultMetadata(t, h) ==
    IF h \in downloaded
    THEN Finish(t, "None") /\ UNCHANGED lock
    ELSE /\ pc' = [pc EXCEPT ![t] = "download"]
         /\ metadata' = [metadata EXCEPT ![t] = last_metadata[h]]
         /\ result' = [result EXCEPT ![t] = ""]
         /\ lock' = t

\* The body of "with self.model_tracker.lock" up to the download, once the
\* lock is acquired: the early return, the lookup of the tracked metadata
\* (a KeyError when there is none), and the start of the download with the
\* lock still held.
EnsureLocked(t, h) ==
    IF h \in downloaded
    THEN Finish(t, "None") /\ UNCHANGED lock
    ELSE IF last_metadata[h] = NoMetadata
    THEN Finish(t, "KeyError") /\ UNCHANGED lock
    ELSE /\ pc' = [pc EXCEPT ![t] = "download"]
         /\ metadata' = [metadata EXCEPT ![t] = last_metadata[h]]
         /\ result' = [result EXCEPT ![t] = ""]
         /\ lock' = t

\* Mutant: the call does not take the lock.
EnsureCallNoLock(t, h) ==
    /\ Free(t)
    /\ op' = [op EXCEPT ![t] = "ensure_model_downloaded"]
    /\ hotkey' = [hotkey EXCEPT ![t] = h]
    /\ EnsureLocked(t, h)
    /\ UNCHANGED <<min_block, last_metadata, downloaded, disk, batch>>

\* The call starts; it waits at the with statement when the lock is held.
EnsureCall(t, h) ==
    /\ Free(t)
    /\ op' = [op EXCEPT ![t] = "ensure_model_downloaded"]
    /\ hotkey' = [hotkey EXCEPT ![t] = h]
    /\ IF lock = 0
       THEN EnsureLocked(t, h)
       ELSE /\ pc' = [pc EXCEPT ![t] = "enter"]
            /\ metadata' = [metadata EXCEPT ![t] = NoMetadata]
            /\ result' = [result EXCEPT ![t] = ""]
            /\ UNCHANGED lock
    /\ UNCHANGED <<min_block, last_metadata, downloaded, disk, batch>>

\* The lock is released and the waiting call enters.
EnsureEnter(t) ==
    /\ At(t, "ensure_model_downloaded", "enter")
    /\ lock = 0
    /\ EnsureLocked(t, hotkey[t])
    /\ UNCHANGED <<min_block, last_metadata, downloaded, disk, op, hotkey, batch>>

\* Mutant: model_downloaded.add comes before the validation.
EnsureDownloadedAddsFirst(t, model_hash) ==
    /\ At(t, "ensure_model_downloaded", "download")
    /\ disk' = download_model(hotkey[t], model_hash)
    /\ lock' = 0
    /\ downloaded' = downloaded \cup {hotkey[t]}
    /\ IF EnsureHashOk(model_hash, metadata[t], hotkey[t])
       THEN Finish(t, "None")
       ELSE Finish(t, "ValueError")
    /\ UNCHANGED <<min_block, last_metadata, op, hotkey, batch>>

\* download_model returns: the validation, then model_downloaded.add; the
\* with statement releases the lock either way.
EnsureDownloaded(t, model_hash) ==
    /\ At(t, "ensure_model_downloaded", "download")
    /\ disk' = download_model(hotkey[t], model_hash)
    /\ lock' = 0
    /\ IF EnsureHashOk(model_hash, metadata[t], hotkey[t])
       THEN /\ downloaded' = downloaded \cup {hotkey[t]}
            /\ Finish(t, "None")
       ELSE /\ Finish(t, "ValueError")
            /\ UNCHANGED downloaded
    /\ UNCHANGED <<min_block, last_metadata, op, hotkey, batch>>

\* download_model raises: the with statement releases the lock.
EnsureDownloadError(t) ==
    /\ At(t, "ensure_model_downloaded", "download")
    /\ lock' = 0
    /\ Finish(t, "TransferError")
    /\ UNCHANGED <<min_block, last_metadata, downloaded, disk, op, hotkey, batch>>

----------------------------------------------------------------------------
(* sync_models *)

IsError(r) == r \in {"ValueError", "TransferError", "RetrievalError", "KeyError"}

\* Mutant: gather without return_exceptions raises the first error.
gather_raising(hotkeys, results) ==
    IF \E i \in DOMAIN results : IsError(results[i])
    THEN [status |-> "raised", hotkeys |-> hotkeys, outcomes |-> <<>>]
    ELSE [status |-> "returned", hotkeys |-> hotkeys, outcomes |-> results]

\* asyncio.gather(*tasks, return_exceptions=True) once every task has
\* finished: the results and the raised errors, in the order of the tasks.
gather(hotkeys, results) ==
    [status |-> "returned", hotkeys |-> hotkeys, outcomes |-> results]

\* One sync_model coroutine per hotkey, each started by gather.
SyncModelsCall(hotkeys) ==
    /\ batch.status = "none"
    /\ \A t \in 1..Len(hotkeys) : pc[t] \in {"idle", "done"}
    /\ batch' = [status |-> "running", hotkeys |-> hotkeys, outcomes |-> <<>>]
    /\ op' = [t \in Tasks |-> IF t <= Len(hotkeys) THEN "sync_model" ELSE op[t]]
    /\ hotkey' = [t \in Tasks |-> IF t <= Len(hotkeys) THEN hotkeys[t] ELSE hotkey[t]]
    /\ pc' = [t \in Tasks |-> IF t <= Len(hotkeys) THEN "get_metadata" ELSE pc[t]]
    /\ metadata' = [t \in Tasks |-> IF t <= Len(hotkeys) THEN NoMetadata ELSE metadata[t]]
    /\ result' = [t \in Tasks |-> IF t <= Len(hotkeys) THEN "" ELSE result[t]]
    /\ UNCHANGED <<min_block, last_metadata, downloaded, lock, disk>>

SyncModelsReturn ==
    /\ batch.status = "running"
    /\ \A t \in 1..Len(batch.hotkeys) : pc[t] = "done"
    /\ batch' = gather(batch.hotkeys, [t \in 1..Len(batch.hotkeys) |-> result[t]])
    /\ UNCHANGED <<min_block, last_metadata, downloaded, lock, disk, op, hotkey,
                   pc, metadata, result>>

\* The caller has taken the result of sync_models.
SyncModelsDone ==
    /\ batch.status \notin {"none", "running"}
    /\ batch' = NoBatch
    /\ UNCHANGED <<min_block, last_metadata, downloaded, lock, disk, op, hotkey,
                   pc, metadata, result>>

----------------------------------------------------------------------------
(* The initial state: a ModelUpdater just constructed, an empty tracker. *)

NoCall == [hotkey |-> "", fetched |-> NoMetadata]

NoSnapshot ==
    [last_metadata |-> <<>>, downloaded |-> {}, disk |-> <<>>, min_block |-> -1]

\* retrieved: download_model was not called, or raised.
NoRetrieval == -1
RetrievalFailed == -2

\* fetched: the metadata store raised.
FetchFailed == [id |-> [hash |-> -2, competition_id |-> "<error>"], block |-> -2]

Init ==
    /\ min_block = NoMinBlock
    /\ last_metadata = [h \in Hotkeys |-> NoMetadata]
    /\ downloaded = {}
    /\ lock = 0
    /\ disk = [h \in Hotkeys |-> NoFile]
    /\ op = [t \in Tasks |-> ""]
    /\ hotkey = [t \in Tasks |-> ""]
    /\ pc = [t \in Tasks |-> "idle"]
    /\ metadata = [t \in Tasks |-> NoMetadata]
    /\ result = [t \in Tasks |-> ""]
    /\ batch = NoBatch
    /\ fetched = NoMetadata
    /\ retrieved = NoRetrieval
    /\ pre = NoSnapshot
    /\ prev = NoCall
    /\ recorded = [h \in Hotkeys |-> NoFile]

----------------------------------------------------------------------------
(* Spec: concurrent calls of every operation, MaxConcurrent at a time, on  *)
(* metadata that passes the filters.                                       *)

ConcurrentTasks == 1..MaxConcurrent

Published ==
    {m \in Metadata : m.id.competition_id = ORIGINAL_COMPETITION_ID /\ m.block = MaxBlock}
        \cup {NoMetadata}

ConcurrentBatches == UNION {[1..n -> Hotkeys] : n \in 1..MaxConcurrent}

Next ==
    \/ \E t \in ConcurrentTasks, h \in Hotkeys : SyncModelCall(t, h) /\ UNCHANGED hist
    \/ \E t \in ConcurrentTasks, m \in Published : SyncModelGotMetadata(t, m) /\ UNCHANGED hist
    \/ \E t \in ConcurrentTasks : SyncModelMetadataError(t) /\ UNCHANGED hist
    \/ \E t \in ConcurrentTasks, x \in Hashes : SyncModelDownloaded(t, x) /\ UNCHANGED hist
    \/ \E t \in ConcurrentTasks : SyncModelDownloadError(t) /\ UNCHANGED hist
    \/ \E t \in ConcurrentTasks : SyncModelCommit(t) /\ UNCHANGED hist
    \/ \E t \in ConcurrentTasks, h \in Hotkeys : MetadataOnlyCall(t, h) /\ UNCHANGED hist
    \/ \E t \in ConcurrentTasks, m \in Published : MetadataOnlyGotMetadata(t, m) /\ UNCHANGED hist
    \/ \E t \in ConcurrentTasks : MetadataOnlyMetadataError(t) /\ UNCHANGED hist
    \/ \E t \in ConcurrentTasks : MetadataOnlyCommit(t) /\ UNCHANGED hist
    \/ \E t \in ConcurrentTasks, h \in Hotkeys : EnsureCall(t, h) /\ UNCHANGED hist
    \/ \E t \in ConcurrentTasks : EnsureEnter(t) /\ UNCHANGED hist
    \/ \E t \in ConcurrentTasks, x \in Hashes : EnsureDownloaded(t, x) /\ UNCHANGED hist
    \/ \E t \in ConcurrentTasks : EnsureDownloadError(t) /\ UNCHANGED hist
    \/ \E hs \in ConcurrentBatches : SyncModelsCall(hs) /\ UNCHANGED hist
    \/ SyncModelsReturn /\ UNCHANGED hist
    \/ SyncModelsDone /\ UNCHANGED hist

Spec == Init /\ [][Next]_vars

----------------------------------------------------------------------------
(* SpecSync: concurrent sync_model calls only, alone or started by         *)
(* sync_models, up to MaxTasks at a time.                                  *)

Batches == UNION {[1..n -> Hotkeys] : n \in 1..MaxTasks}

NextSync ==
    \/ \E t \in Tasks, h \in Hotkeys : SyncModelCall(t, h) /\ UNCHANGED hist
    \/ \E t \in Tasks, m \in Published : SyncModelGotMetadata(t, m) /\ UNCHANGED hist
    \/ \E t \in Tasks : SyncModelMetadataError(t) /\ UNCHANGED hist
    \/ \E t \in Tasks, x \in Hashes : SyncModelDownloaded(t, x) /\ UNCHANGED hist
    \/ \E t \in Tasks : SyncModelDownloadError(t) /\ UNCHANGED hist
    \/ \E hs \in Batches : SyncModelsCall(hs) /\ UNCHANGED hist
    \/ SyncModelsReturn /\ UNCHANGED hist
    \/ SyncModelsDone /\ UNCHANGED hist

SpecSync == Init /\ [][NextSync]_vars

----------------------------------------------------------------------------
(* SpecSeq: one call at a time for one hotkey, on every metadata, with the  *)
(* history of the call: the tracker and the disk when it began, what the   *)
(* stores gave it, and the sync_model call that returned True just before. *)

MinBlocks == {NoMinBlock} \cup (0..MaxBlock)

Fetchable == Metadata \cup {NoMetadata}

SeqHotkeys == {"a"}

\* A call begins.
SeqBegin ==
    /\ pre' = [last_metadata |-> last_metadata, downloaded |-> downloaded,
               disk |-> disk, min_block |-> min_block]
    /\ prev' = IF pc[1] = "done" /\ op[1] = "sync_model" /\ result[1] = "True"
               THEN [hotkey |-> hotkey[1], fetched |-> fetched]
               ELSE NoCall
    /\ fetched' = NoMetadata
    /\ retrieved' = NoRetrieval
    /\ UNCHANGED recorded

SeqFetched(m) ==
    /\ fetched' = m
    /\ UNCHANGED <<retrieved, pre, prev, recorded>>

SeqRetrieved(x) ==
    /\ retrieved' = x
    /\ UNCHANGED <<fetched, pre, prev>>
    \* the hash the tracked metadata records when the hotkey joins downloaded
    /\ recorded' = [h \in Hotkeys |->
                       IF h \in downloaded' \ downloaded
                       THEN last_metadata[h].id.hash
                       ELSE recorded[h]]

NextSeq ==
    \/ \E val \in MinBlocks : Free(1) /\ set_min_block(val) /\ UNCHANGED hist
    \/ \E h \in SeqHotkeys : SyncModelCall(1, h) /\ SeqBegin
    \/ \E m \in Fetchable : SyncModelGotMetadata(1, m) /\ SeqFetched(m)
    \/ SyncModelMetadataError(1) /\ SeqFetched(FetchFailed)
    \/ \E x \in Hashes : SyncModelDownloaded(1, x) /\ SeqRetrieved(x)
    \/ SyncModelDownloadError(1) /\ SeqRetrieved(RetrievalFailed)
    \/ \E h \in SeqHotkeys : MetadataOnlyCall(1, h) /\ SeqBegin
    \/ \E m \in Fetchable : MetadataOnlyGotMetadata(1, m) /\ SeqFetched(m)
    \/ MetadataOnlyMetadataError(1) /\ SeqFetched(FetchFailed)
    \/ \E h \in SeqHotkeys : EnsureCall(1, h) /\ SeqBegin
    \/ \E x \in Hashes : EnsureDownloaded(1, x) /\ SeqRetrieved(x)
    \/ EnsureDownloadError(1) /\ SeqRetrieved(RetrievalFailed)

SpecSeq == Init /\ [][NextSeq]_vars

----------------------------------------------------------------------------
(* SpecLoop: calls of the three coroutines started on one event loop, that *)
(* is, on one thread.  "with self.model_tracker.lock" and the commits of   *)
(* the tracker acquire the lock synchronously: a coroutine that finds it   *)
(* held ("enter", "commit") blocks the thread of the loop, and no          *)
(* coroutine is resumed until the acquire returns.  The acquire returns    *)
(* when the lock is released, which takes a step of its holder, so the     *)
(* steps EnsureEnter, SyncModelCommit and MetadataOnlyCommit are never     *)
(* enabled here (LoopBlockedForGood).  Every call of a store that the loop *)
(* can resume eventually returns or raises.                                *)

Blocked == \E t \in Tasks : pc[t] \in {"enter", "commit"}

\* A store call of slot t returns or raises and the loop resumes the
\* coroutine.
LoopResumes(t) ==
    /\ ~Blocked
    /\ \/ \E m \in Published : SyncModelGotMetadata(t, m)
       \/ SyncModelMetadataError(t)
       \/ \E x \in Hashes : SyncModelDownloaded(t, x)
       \/ SyncModelDownloadError(t)
       \/ \E m \in Published : MetadataOnlyGotMetadata(t, m)
       \/ MetadataOnlyMetadataError(t)
       \/ \E x \in Hashes : EnsureDownloaded(t, x)
       \/ EnsureDownloadError(t)
    /\ UNCHANGED hist

NextLoop ==
    \/ ~Blocked /\ \E t \in ConcurrentTasks, h \in Hotkeys : SyncModelCall(t, h) /\ UNCHANGED hist
    \/ ~Blocked /\ \E t \in ConcurrentTasks, m \in Published : SyncModelGotMetadata(t, m) /\ UNCHANGED hist
    \/ ~Blocked /\ \E t \in ConcurrentTasks : SyncModelMetadataError(t) /\ UNCHANGED hist
    \/ ~Blocked /\ \E t \in ConcurrentTasks, x \in Hashes : SyncModelDownloaded(t, x) /\ UNCHANGED hist
    \/ ~Blocked /\ \E t \in ConcurrentTasks : SyncModelDownloadError(t) /\ UNCHANGED hist
    \/ ~Blocked /\ \E t \in ConcurrentTasks, h \in Hotkeys : MetadataOnlyCall(t, h) /\ UNCHANGED hist
    \/ ~Blocked /\ \E t \in ConcurrentTasks, m \in Published : MetadataOnlyGotMetadata(t, m) /\ UNCHANGED hist
    \/ ~Blocked /\ \E t \in ConcurrentTasks : MetadataOnlyMetadataError(t) /\ UNCHANGED hist
    \/ ~Blocked /\ \E t \in ConcurrentTasks, h \in Hotkeys : EnsureCall(t, h) /\ UNCHANGED hist
    \/ ~Blocked /\ \E t \in ConcurrentTasks, x \in Hashes : EnsureDownloaded(t, x) /\ UNCHANGED hist
    \/ ~Blocked /\ \E t \in ConcurrentTasks : EnsureDownloadError(t) /\ UNCHANGED hist

SpecLoop ==
    /\ Init
    /\ [][NextLoop]_vars
    /\ \A t \in ConcurrentTasks : WF_vars(LoopResumes(t))

----------------------------------------------------------------------------
(* The contract of one call, stated on the sequential runs (SpecSeq).      *)

SeqDone(o) == pc[1] = "done" /\ op[1] = o

TrackerAsBefore ==
    last_metadata = pre.last_metadata /\ downloaded = pre.downloaded

WasFetched == fetched # NoMetadata /\ fetched # FetchFailed

\* The fetched metadata with an empty competition id made explicit.
Explicit(m) ==
    IF m.id.competition_id = ""
    THEN [id |-> [hash |-> m.id.hash, competition_id |-> "p240"], block |-> m.block]
    ELSE m

InSchedule(competition_id) ==
    \E i \in DOMAIN COMPETITION_SCHEDULE :
        COMPETITION_SCHEDULE[i].competition_id = competition_id

\* The floor the call ran under.
Floor == pre.min_block

FloorSet == Floor # NoMinBlock

\* Direct or salted match of the retrieved hash x with the expected hash.
Accepted(x, expected, h) ==
    x = expected \/ get_hash_of_two_strings(x, h) = expected

\* C1: sync_model returns True, with the fetched metadata committed for the
\* hotkey, only after a retrieval whose hash matches the metadata's hash
\* directly or salted with the hotkey; when neither matches it raises the
\* integrity error and last_metadata and downloaded are as before the call.
C1_IntegrityDecidesCommit ==
    SeqDone("sync_model") =>
        /\ result[1] = "True" =>
              /\ retrieved \in Hashes
              /\ Accepted(retrieved, fetched.id.hash, hotkey[1])
              /\ last_metadata = [pre.last_metadata EXCEPT ![hotkey[1]] = Explicit(fetched)]
              /\ downloaded = pre.downloaded
        /\ (retrieved \in Hashes /\ ~Accepted(retrieved, fetched.id.hash, hotkey[1])) =>
              /\ result[1] = "ValueError"
              /\ TrackerAsBefore

C1_Witness ==
    /\ SeqDone("sync_model")
    /\ result[1] = "ValueError"
    /\ pre.last_metadata[hotkey[1]] # NoMetadata
    /\ retrieved \in Hashes

\* The retrieval sync_model has to make: metadata was fetched, passes the
\* minimum-block and competition filters and differs from the tracked one.
Stale ==
    /\ WasFetched
    /\ ~(FloorSet /\ fetched.block < Floor)
    /\ InSchedule(Explicit(fetched).id.competition_id)
    /\ Explicit(fetched) # pre.last_metadata[hotkey[1]]

\* C2: sync_model calls download_model exactly when metadata was fetched,
\* passes the filters and differs (after the default rewrite, by value) from
\* the tracked metadata; otherwise there is no retrieval, the tracker and the
\* disk are unchanged, and the call returns False (the fetch having returned).
C2_RetrievesExactlyWhenStale ==
    /\ At(1, "sync_model", "download") => Stale
    /\ SeqDone("sync_model") =>
          /\ retrieved # NoRetrieval <=> Stale
          /\ retrieved = NoRetrieval =>
                /\ TrackerAsBefore
                /\ disk = pre.disk
                /\ fetched # FetchFailed => result[1] = "False"

C2_Witness ==
    /\ SeqDone("sync_model")
    /\ WasFetched
    /\ Explicit(fetched) = pre.last_metadata[hotkey[1]]
    /\ result[1] = "False"

\* C3: a sync_model call that follows one that returned True for the same
\* hotkey, and fetches the same metadata, returns False, retrieves nothing
\* and leaves the tracker and the disk as they were.
C3_NoOpStability ==
    (/\ SeqDone("sync_model")
     /\ prev # NoCall
     /\ prev.hotkey = hotkey[1]
     /\ fetched = prev.fetched) =>
        /\ result[1] = "False"
        /\ retrieved = NoRetrieval
        /\ TrackerAsBefore
        /\ disk = pre.disk

C3_Witness ==
    /\ SeqDone("sync_model")
    /\ prev # NoCall
    /\ prev.hotkey = hotkey[1]
    /\ fetched = prev.fetched
    /\ result[1] = "False"

\* C4: with a floor B set, sync_model and sync_model_metadata_only return
\* False, retrieve nothing and leave the tracker untouched for metadata of
\* block < B; metadata of block = B is not rejected by the filter.
C4_MinimumBlockFilter ==
    (/\ pc[1] = "done"
     /\ op[1] \in {"sync_model", "sync_model_metadata_only"}
     /\ WasFetched
     /\ FloorSet) =>
        /\ fetched.block < Floor =>
              /\ result[1] = "False"
              /\ retrieved = NoRetrieval
              /\ TrackerAsBefore
              /\ disk = pre.disk
        /\ (fetched.block = Floor
            /\ InSchedule(Explicit(fetched).id.competition_id)) =>
              /\ op[1] = "sync_model_metadata_only" => result[1] = "True"
              /\ (op[1] = "sync_model"
                  /\ Explicit(fetched) # pre.last_metadata[hotkey[1]]) =>
                     retrieved # NoRetrieval

C4_Witness ==
    /\ SeqDone("sync_model")
    /\ WasFetched
    /\ FloorSet
    /\ fetched.block < Floor
    /\ InSchedule(Explicit(fetched).id.competition_id)
    /\ Explicit(fetched) # pre.last_metadata[hotkey[1]]
    /\ result[1] = "False"

\* C5: for metadata whose competition id, after the default rewrite, is not
\* in the schedule, sync_model and sync_model_metadata_only return False,
\* retrieve nothing and leave last_metadata and downloaded unchanged.
C5_UnknownCompetition ==
    (/\ pc[1] = "done"
     /\ op[1] \in {"sync_model", "sync_model_metadata_only"}
     /\ WasFetched
     /\ ~InSchedule(Explicit(fetched).id.competition_id)) =>
        /\ result[1] = "False"
        /\ retrieved = NoRetrieval
        /\ TrackerAsBefore
        /\ disk = pre.disk

C5_Witness ==
    /\ SeqDone("sync_model")
    /\ WasFetched
    /\ ~InSchedule(Explicit(fetched).id.competition_id)
    /\ ~(FloorSet /\ fetched.block < Floor)
    /\ result[1] = "False"

EmptyIdMetadata ==
    [id : [hash : 0..MaxMetaHash, competition_id : {""}], block : Blocks]

\* C6: metadata with an empty competition id is treated as the same
\* metadata carrying the default id: from every state both operations decide
\* alike on the two, a commit of either stores the explicit one, and a
\* sync_model of one right after a sync_model of the other returns False.
C6_BackwardCompatDefault ==
    /\ \A m \in EmptyIdMetadata, h \in Hotkeys :
             /\ SyncModelDecision(h, m) = SyncModelDecision(h, Explicit(m))
             /\ MetadataOnlyDecision(m) = MetadataOnlyDecision(Explicit(m))
             /\ BackwardsCompatible(m) = BackwardsCompatible(Explicit(m))
    /\ (/\ pc[1] = "done"
        /\ op[1] \in {"sync_model", "sync_model_metadata_only"}
        /\ result[1] = "True") =>
           last_metadata[hotkey[1]] = Explicit(fetched)
    /\ (/\ SeqDone("sync_model")
        /\ prev # NoCall
        /\ prev.hotkey = hotkey[1]
        /\ WasFetched
        /\ Explicit(fetched) = Explicit(prev.fetched)) =>
           /\ result[1] = "False"
           /\ retrieved = NoRetrieval
           /\ TrackerAsBefore

C6_Witness ==
    /\ SeqDone("sync_model")
    /\ prev # NoCall
    /\ prev.hotkey = hotkey[1]
    /\ prev.fetched.id.competition_id = ""
    /\ fetched = Explicit(prev.fetched)
    /\ result[1] = "False"

----------------------------------------------------------------------------
(* The batch and the concurrent calls.                                     *)

Outcomes == {"True", "False", "ValueError", "TransferError", "RetrievalError"}

\* C7: sync_models never raises and returns one outcome per hotkey, in
\* order, the outcome of slot i being what sync_model(hotkeys[i]) returned
\* or raised; while it runs every attempt is at one of its awaits or has
\* finished, whatever the other attempts raised, and it returns only when
\* all have finished.
C7_BatchIsolation ==
    /\ batch.status \in {"none", "running", "returned"}
    /\ batch.status # "none" =>
          \A i \in 1..Len(batch.hotkeys) :
              /\ op[i] = "sync_model"
              /\ hotkey[i] = batch.hotkeys[i]
              /\ pc[i] \in {"get_metadata", "download", "commit", "done"}
    /\ batch.status = "returned" =>
          /\ Len(batch.outcomes) = Len(batch.hotkeys)
          /\ \A i \in 1..Len(batch.hotkeys) :
                /\ pc[i] = "done"
                /\ batch.outcomes[i] = result[i]
                /\ batch.outcomes[i] \in Outcomes
                /\ batch.outcomes[i] = "True" =>
                       last_metadata[batch.hotkeys[i]] # NoMetadata

C7_Witness ==
    /\ batch.status = "returned"
    /\ Len(batch.hotkeys) = 3
    /\ batch.outcomes[1] = "True"
    /\ batch.outcomes[2] = "TransferError"
    /\ batch.outcomes[3] = "True"

\* C8 (as claimed): for every hotkey in downloaded, the files at its path
\* match, directly or salted, the hash the tracked metadata recorded when
\* the hotkey was added to downloaded.
C8_DownloadedMatchesRecordedHash ==
    \A h \in downloaded : Accepted(disk[h], recorded[h], h)

Retrieving(t) == pc[t] = "download"

\* C9 (as claimed): no two retrievals for the same hotkey are in flight at
\* the same time.
C9_OneRetrievalPerHotkey ==
    \A t1, t2 \in Tasks :
        (t1 # t2 /\ Retrieving(t1) /\ Retrieving(t2)) => hotkey[t1] # hotkey[t2]

\* C9 (amended): no two retrievals of ensure_model_downloaded are in flight
\* at the same time, and the one in flight holds the lock.
C9_OneEnsureRetrieval ==
    \A t1, t2 \in Tasks :
        (At(t1, "ensure_model_downloaded", "download")
         /\ At(t2, "ensure_model_downloaded", "download")) =>
            t1 = t2 /\ lock = t1

C9_Witness ==
    \E t1, t2 \in Tasks :
        /\ At(t1, "ensure_model_downloaded", "download")
        /\ At(t2, "ensure_model_downloaded", "enter")
        /\ hotkey[t1] = hotkey[t2]

AllFinished == \A t \in Tasks : pc[t] \in {"idle", "done"}

\* C10 (as claimed): once every sync_model call has finished, for every
\* hotkey with committed metadata the files at its path match, directly or
\* salted, the hash of the tracked metadata.
C10_DiskVerifiesOnceFinished ==
    AllFinished =>
        \A h \in Hotkeys :
            last_metadata[h] # NoMetadata =>
                Accepted(disk[h], last_metadata[h].id.hash, h)

\* The part of C10 that holds of sync_model: every change of a tracked entry
\* is the commit of a sync_model call, of the metadata it fetched, right
\* after a retrieval that matches it directly or salted.
CommitsAreVerified ==
    [][\A h \in Hotkeys :
          last_metadata'[h] # last_metadata[h] =>
              \E t \in Tasks :
                  /\ At(t, "sync_model", "download")
                  /\ hotkey[t] = h
                  /\ last_metadata'[h] = metadata[t]
                  /\ Accepted(disk'[h], metadata[t].id.hash, h)
                  /\ result'[t] = "True"]_vars

----------------------------------------------------------------------------
(* ensure_model_downloaded and the lock.                                   *)

EnsureRetrieving(t) == At(t, "ensure_model_downloaded", "download")

\* C11: at most one ensure_model_downloaded call is between acquiring the
\* lock and the end of its download, and while one is, no step commits to
\* the tracker: last_metadata does not change, and downloaded changes only
\* by that call adding its own hotkey.
C11_EnsureSerialized ==
    /\ [](\A t1, t2 \in Tasks :
              (EnsureRetrieving(t1) /\ EnsureRetrieving(t2)) => t1 = t2)
    /\ [][(\E t \in Tasks : EnsureRetrieving(t)) =>
              /\ last_metadata' = last_metadata
              /\ downloaded' # downloaded =>
                     \E t \in Tasks :
                         /\ EnsureRetrieving(t)
                         /\ pc'[t] = "done"
                         /\ downloaded' = downloaded \cup {hotkey[t]}]_vars

\* A sync_model call that has validated its download waits with its commit
\* while an ensure_model_downloaded call is downloading.
C11_Witness ==
    \E t1, t2 \in Tasks :
        /\ EnsureRetrieving(t1)
        /\ lock = t1
        /\ At(t2, "sync_model", "commit")

\* The hotkey of the call was in model_downloaded when the call began.
WasDownloaded == hotkey[1] \in pre.downloaded

\* The metadata tracked for the hotkey of the call when the call began.
Tracked == pre.last_metadata[hotkey[1]]

\* C12: ensure_model_downloaded for a hotkey already in model_downloaded
\* returns without a retrieval and leaves last_metadata, model_downloaded and
\* the files unchanged; a call that returns leaves its hotkey in
\* model_downloaded, so the calls that follow it are such calls.
C12_IdempotentPresence ==
    SeqDone("ensure_model_downloaded") =>
        /\ WasDownloaded =>
              /\ result[1] = "None"
              /\ retrieved = NoRetrieval
              /\ TrackerAsBefore
              /\ disk = pre.disk
              /\ lock = 0
        /\ result[1] = "None" => hotkey[1] \in downloaded

C12_Witness ==
    /\ SeqDone("ensure_model_downloaded")
    /\ WasDownloaded
    /\ result[1] = "None"
    /\ retrieved = NoRetrieval

\* C13: ensure_model_downloaded for a hotkey not in model_downloaded adds it
\* exactly when download_model returned a model whose hash matches the
\* tracked metadata directly or salted; on a mismatch it raises ValueError,
\* on a failed transfer the TransferError, with model_downloaded unchanged;
\* last_metadata is unchanged and the lock is free in every case.
C13_EnsureAddsIffVerified ==
    (SeqDone("ensure_model_downloaded") /\ ~WasDownloaded) =>
        /\ hotkey[1] \in downloaded <=>
              (retrieved \in Hashes /\ Accepted(retrieved, Tracked.id.hash, hotkey[1]))
        /\ hotkey[1] \in downloaded =>
              result[1] = "None" /\ downloaded = pre.downloaded \cup {hotkey[1]}
        /\ (retrieved \in Hashes /\ ~Accepted(retrieved, Tracked.id.hash, hotkey[1])) =>
              result[1] = "ValueError" /\ downloaded = pre.downloaded
        /\ retrieved = RetrievalFailed =>
              result[1] = "TransferError" /\ downloaded = pre.downloaded
        /\ last_metadata = pre.last_metadata
        /\ lock = 0

C13_Witness ==
    /\ SeqDone("ensure_model_downloaded")
    /\ ~WasDownloaded
    /\ retrieved \in Hashes
    /\ result[1] = "ValueError"
    /\ hotkey[1] \notin downloaded

\* C16: ensure_model_downloaded for a hotkey without tracked metadata raises
\* (KeyError) before any retrieval, adds nothing to model_downloaded, creates
\* no entry of last_metadata, and leaves the lock free.
C16_EnsureFailsFast ==
    (SeqDone("ensure_model_downloaded") /\ Tracked = NoMetadata) =>
        /\ result[1] = "KeyError"
        /\ retrieved = NoRetrieval
        /\ TrackerAsBefore
        /\ last_metadata[hotkey[1]] = NoMetadata
        /\ disk = pre.disk
        /\ lock = 0

C16_Witness ==
    /\ SeqDone("ensure_model_downloaded")
    /\ Tracked = NoMetadata
    /\ result[1] = "KeyError"

----------------------------------------------------------------------------
(* sync_model_metadata_only, the errors, and what the tracker holds.       *)

\* Metadata was fetched and passes the minimum-block and competition filters.
Eligible ==
    /\ WasFetched
    /\ ~(FloorSet /\ fetched.block < Floor)
    /\ InSchedule(Explicit(fetched).id.competition_id)

C15_AbsenceAndFailure ==
    /\ (/\ pc[1] = "done"
        /\ op[1] \in {"sync_model", "sync_model_metadata_only"}
        /\ fetched = NoMetadata) =>
           /\ result[1] = "False"
           /\ retrieved = NoRetrieval
           /\ TrackerAsBefore
    /\ fetched = FetchFailed =>
           /\ pc[1] = "done"
           /\ result[1] = "RetrievalError"
           /\ retrieved = NoRetrieval
           /\ TrackerAsBefore
    /\ retrieved = RetrievalFailed =>
           /\ pc[1] = "done"
           /\ result[1] = "TransferError"
           /\ TrackerAsBefore

C15_Witness ==
    /\ SeqDone("sync_model")
    /\ Tracked # NoMetadata
    /\ WasFetched
    /\ retrieved = RetrievalFailed
    /\ result[1] = "TransferError"

\* C17: the validation of ensure_model_downloaded and the validation of
\* sync_model accept the same retrievals: whatever hash the download in
\* progress retrieves, for whatever hotkey, both accept it for the metadata
\* of the call exactly on a direct or a salted match, and each finished call
\* did what the other's validation says of its retrieval.
C17_SameIntegrityCheck ==
    /\ Retrieving(1) =>
          \A x \in Hashes, h \in Hotkeys :
              /\ EnsureHashOk(x, metadata[1], h) <=> SyncModelHashOk(x, metadata[1], h)
              /\ SyncModelHashOk(x, metadata[1], h)
                     <=> Accepted(x, metadata[1].id.hash, h)
    /\ (SeqDone("ensure_model_downloaded") /\ retrieved \in Hashes) =>
          (result[1] = "None" <=> SyncModelHashOk(retrieved, Tracked, hotkey[1]))
    /\ (SeqDone("sync_model") /\ retrieved \in Hashes) =>
          (result[1] = "True" <=> EnsureHashOk(retrieved, Explicit(fetched), hotkey[1]))

\* ensure_model_downloaded accepts a retrieval on the salted match.
C17_Witness ==
    /\ SeqDone("ensure_model_downloaded")
    /\ retrieved \in Hashes
    /\ retrieved # Tracked.id.hash
    /\ result[1] = "None"

\* C19: every tracked metadata has a non-empty competition id of the
\* schedule, and the lookup of ensure_model_downloaded on the tracked
\* metadata gives parameters.
C19_TrackedCompetitionKnown ==
    /\ \A h \in Hotkeys :
          last_metadata[h] # NoMetadata =>
              /\ last_metadata[h].id.competition_id # ""
              /\ InSchedule(last_metadata[h].id.competition_id)
    /\ \A t \in Tasks :
          EnsureRetrieving(t) =>
              get_competition_parameters(metadata[t].id.competition_id) # NoParameters

C19_Witness ==
    /\ EnsureRetrieving(1)
    /\ metadata[1] = last_metadata[hotkey[1]]
    /\ metadata[1] # NoMetadata

HasEntry(h) == last_metadata[h] # NoMetadata

\* C20: every hotkey in model_downloaded has a tracked entry, and no step
\* removes a hotkey from model_downloaded or an entry from last_metadata.
C20_TrackerGrowsOnly ==
    /\ [](\A h \in downloaded : HasEntry(h))
    /\ [][/\ downloaded \subseteq downloaded'
          /\ \A h \in Hotkeys : HasEntry(h) => last_metadata'[h] # NoMetadata]_vars

\* A sync_model call is about to overwrite the entry of a hotkey that is in
\* model_downloaded.
C20_Witness ==
    \E t \in Tasks :
        /\ At(t, "sync_model", "download")
        /\ hotkey[t] \in downloaded
        /\ metadata[t] # last_metadata[hotkey[t]]

----------------------------------------------------------------------------
(* Termination on one event loop (SpecLoop).                               *)

Running(t) == pc[t] \notin {"idle", "done"}

\* On one loop the lock is held only by an ensure_model_downloaded call
\* suspended in its download, and a blocked acquire finds it so: the steps
\* that would end the wait need the lock free and are never enabled.
LoopBlockedForGood ==
    /\ lock # 0 => EnsureRetrieving(lock)
    /\ Blocked => lock # 0

\* C18 (as claimed): every call that was started completes, and the lock is
\* free once all have completed.
C18_EveryCallCompletes ==
    /\ \A t \in Tasks : Running(t) ~> (pc[t] = "done")
    /\ [](AllFinished => lock = 0)

====
